---- MODULE Spec2Model ----
(***************************************************************************)
(* SSO connector library (packages/core/src/libraries/sso-connector.ts):   *)
(* connector discovery, the IdP-initiated auth config lifecycle, SAML SSO  *)
(* session creation and the synthesis of the IdP-initiated sign-in URL.    *)
(*                                                                         *)
(* The query layer, the application lookup, the provider registry and the  *)
(* helpers of @logto/js are collaborators whose code is not part of the    *)
(* library file; they are modelled from their contract.                    *)
(***************************************************************************)
EXTENDS Integers, Sequences, FiniteSets, TLC

VARIABLES
    connectors,   \* persisted SSO connectors: id -> [providerName, config, domains]
    configs,      \* rows of the IdP-initiated auth config table
    sessions,     \* persisted IdP-initiated SAML SSO sessions: id -> session
    now,          \* Date.now(), epoch milliseconds
    pending,      \* calls suspended between their application lookup and their write
    last          \* the call that completed last: its arguments and its outcome

vars == <<connectors, configs, sessions, now, pending, last>>

\* JavaScript null / undefined of a nullable string field.
Null == "<null>"

\* The values of authParameters and of the query string are strings whose
\* characters matter (they are split and joined): such a string is the sequence of
\* its symbols, a symbol being the space or a letter. Str(s) is the string of the
\* one symbol s.
Space == " "
Str(s) == <<s>>

\* A promise resolved with v / rejected with a RequestError.
Ok(v) == [kind |-> "ok", value |-> v]
RequestError(code, status) == [kind |-> "error", code |-> code, status |-> status]

NoCall == [op |-> "none"]

----------------------------------------------------------------------------
(* Connector registry and connector discovery                               *)

ConnectorIds == <<"c1", "c2">>
ConnectorIdSet == {ConnectorIds[i] : i \in DOMAIN ConnectorIds}
ProviderNames == {"okta", "saml", "legacy"}
ConfigKeys == {"clientId", "issuer", "metadataUrl"}
DomainSets == {{}, {"example.com"}}

\* Provider name -> the keys its configGuard requires of a config.
ssoConnectorFactories ==
    [p \in {"okta", "saml"} |->
        IF p = "okta" THEN {"clientId", "issuer"} ELSE {"metadataUrl"}]

\* factory.configGuard.safeParse(config).success
configGuardSuccess(providerName, config) ==
    ssoConnectorFactories[providerName] \subseteq config

\* ssoConnectors.findById: <<connector>>, or <<>> when no record has the id.
findById(id) ==
    IF id \in DOMAIN connectors THEN <<connectors[id]>> ELSE <<>>

\* An absent record is not a supported connector.
isSupportedSsoConnector(found) ==
    /\ found # <<>>
    /\ found[1].providerName \in DOMAIN ssoConnectorFactories

\* The persisted connectors in the repository's order.
AllEntities ==
    LET present == SelectSeq(ConnectorIds, LAMBDA i : i \in DOMAIN connectors)
    IN  [k \in 1..Len(present) |-> connectors[present[k]]]

\* ssoConnectors.findAll(limit, offset): the unfiltered count and one page;
\* limit 0 stands for "no limit given".
findAll(limit, offset) ==
    LET all  == AllEntities
        from == IF offset < Len(all) THEN offset + 1 ELSE Len(all) + 1
        to   == IF limit = 0 \/ from + limit - 1 > Len(all)
                  THEN Len(all) ELSE from + limit - 1
    IN  <<Len(all), SubSeq(all, from, to)>>

getSsoConnectors(limit, offset) ==
    LET page == findAll(limit, offset)
    IN  <<page[1], SelectSeq(page[2], LAMBDA c : isSupportedSsoConnector(<<c>>))>>

getAvailableSsoConnectors_IgnoreDomains ==
    SelectSeq(getSsoConnectors(0, 0)[2],
              LAMBDA c : configGuardSuccess(c.providerName, c.config))

getAvailableSsoConnectors ==
    SelectSeq(getSsoConnectors(0, 0)[2],
              LAMBDA c : LET hasValidConfig  == configGuardSuccess(c.providerName, c.config)
                             hasValidDomains == Cardinality(c.domains) > 0
                         IN  hasValidConfig /\ hasValidDomains)

getSsoConnectorById_NoAssert(id) ==
    LET connector == findById(id)
    IN  IF connector # <<>> THEN Ok(connector[1])
        ELSE RequestError("connector.not_found", 404)

getSsoConnectorById(id) ==
    LET connector == findById(id)
    IN  IF isSupportedSsoConnector(connector) THEN Ok(connector[1])
        ELSE RequestError("connector.not_found", 404)

Stores == <<configs, sessions, now, pending>>

GetSsoConnectors(limit, offset) ==
    /\ last' = [op |-> "getSsoConnectors", limit |-> limit, offset |-> offset,
                result |-> Ok(getSsoConnectors(limit, offset))]
    /\ UNCHANGED <<connectors, Stores>>

GetAvailableSsoConnectors ==
    /\ last' = [op |-> "getAvailableSsoConnectors",
                result |-> Ok(getAvailableSsoConnectors)]
    /\ UNCHANGED <<connectors, Stores>>

GetSsoConnectorById(id) ==
    /\ last' = [op |-> "getSsoConnectorById", id |-> id,
                result |-> getSsoConnectorById(id)]
    /\ UNCHANGED <<connectors, Stores>>

\* Every connector record the repository can hold.
ConnectorRecords ==
    [id : ConnectorIdSet, providerName : ProviderNames,
     config : SUBSET ConfigKeys, domains : DomainSets]

ConnectorStores ==
    UNION {{s \in [ids -> ConnectorRecords] : \A i \in ids : s[i].id = i} :
             ids \in SUBSET ConnectorIdSet}

MaxLimit == 2

InitDiscovery ==
    /\ connectors \in ConnectorStores
    /\ configs = <<>>
    /\ sessions = {}
    /\ now = 0
    /\ pending = <<>>
    /\ last = NoCall

NextDiscovery ==
    \/ \E limit \in 0..MaxLimit, offset \in 0..MaxLimit : GetSsoConnectors(limit, offset)
    \/ GetAvailableSsoConnectors
    \/ \E id \in ConnectorIdSet : GetSsoConnectorById(id)

SpecDiscovery == InitDiscovery /\ [][NextDiscovery]_vars

\* Members of a sequence.
Range(s) == {s[i] : i \in DOMAIN s}

\* C1: getSsoConnectorById returns the record exactly when one exists for the id
\* and its provider is registered; in both other cases it fails with the same
\* connector.not_found / 404 error; getSsoConnectors never lists a connector of an
\* unregistered provider, and reports the unfiltered count.
C1_UnsupportedLooksAbsent ==
    /\ last.op = "getSsoConnectorById" =>
          LET exists   == last.id \in DOMAIN connectors
              supported == exists /\ connectors[last.id].providerName \in {"okta", "saml"}
          IN  /\ last.result.kind = "ok" <=> supported
              /\ supported => last.result = Ok(connectors[last.id])
              /\ ~supported => last.result = RequestError("connector.not_found", 404)
    /\ last.op = "getSsoConnectors" =>
          /\ \A c \in Range(last.result.value[2]) : c.providerName \in {"okta", "saml"}
          /\ last.result.value[1] = Cardinality(DOMAIN connectors)

C1_Witness ==
    /\ last.op = "getSsoConnectorById"
    /\ last.id \in DOMAIN connectors
    /\ connectors[last.id].providerName = "legacy"
    /\ last.result.kind = "error"
    /\ last.result.status = 404

\* C2: getAvailableSsoConnectors returns a persisted connector if and only if its
\* provider is registered, the provider's config guard accepts its config and it
\* has at least one domain.
C2_AvailableIffAllThree ==
    last.op = "getAvailableSsoConnectors" =>
        /\ \A id \in DOMAIN connectors :
              LET c == connectors[id]
              IN  c \in Range(last.result.value) <=>
                    /\ c.providerName \in {"okta", "saml"}
                    /\ (c.providerName = "okta" => {"clientId", "issuer"} \subseteq c.config)
                    /\ (c.providerName = "saml" => "metadataUrl" \in c.config)
                    /\ c.domains # {}
        /\ \A c \in Range(last.result.value) : \E id \in DOMAIN connectors : connectors[id] = c

C2_Witness ==
    /\ last.op = "getAvailableSsoConnectors"
    /\ "c1" \in DOMAIN connectors /\ "c2" \in DOMAIN connectors
    /\ connectors["c1"].providerName = "okta"
    /\ {"clientId", "issuer"} \subseteq connectors["c1"].config
    /\ connectors["c1"].domains = {}
    /\ connectors["c2"] = [connectors["c1"] EXCEPT !.id = "c2", !.domains = {"example.com"}]
    /\ Range(last.result.value) = {connectors["c2"]}

----------------------------------------------------------------------------
(* IdP-initiated auth config lifecycle                                      *)

\* The applications of the tenant (held fixed): a first-party traditional web
\* application, a third-party one, a single-page application, and a first-party
\* traditional one without registered redirect URIs.
Applications ==
    [a \in {"a1", "a2", "a3", "a4"} |->
        [id            |-> a,
         type          |-> IF a = "a3" THEN "SPA" ELSE "Traditional",
         isThirdParty  |-> a = "a2",
         redirectUris  |-> IF a = "a1" THEN <<"https://app.example/cb", "https://app.example/alt">>
                           ELSE IF a = "a2" THEN <<"https://third.example/cb">>
                           ELSE <<>>]]

\* applications.findApplicationById: the application, or a 404 error.
findApplicationById(id) ==
    IF id \in DOMAIN Applications THEN Ok(Applications[id])
    ELSE RequestError("entity.not_exists_with_id", 404)

\* JavaScript truthiness of an optional string.
Truthy(s) == s # Null /\ s # ""

assertApplicationType_AnyFirstParty(defaultApplicationId) ==
    LET application == findApplicationById(defaultApplicationId)
    IN  IF application.kind = "error" THEN application
        ELSE IF ~application.value.isThirdParty THEN Ok(TRUE)
        ELSE RequestError("connector.saml_idp_initiated_auth_invalid_application_type", 400)

\* The application lookup followed by assertThat(type = Traditional && !isThirdParty).
assertApplicationType(defaultApplicationId) ==
    LET application == findApplicationById(defaultApplicationId)
    IN  IF application.kind = "error" THEN application
        ELSE IF application.value.type = "Traditional" /\ ~application.value.isThirdParty
             THEN Ok(TRUE)
        ELSE RequestError("connector.saml_idp_initiated_auth_invalid_application_type", 400)

\* The guard of the update: if (defaultApplicationId) { lookup and assert }.
updateValidation(set) ==
    IF "defaultApplicationId" \in DOMAIN set /\ Truthy(set.defaultApplicationId)
    THEN assertApplicationType(set.defaultApplicationId)
    ELSE Ok(TRUE)

HasRow(table, connectorId) ==
    \E i \in DOMAIN table : table[i].connectorId = connectorId

UniqueViolation == [kind |-> "error", code |-> "db.unique_violation", status |-> 500]
UpdateError     == [kind |-> "error", code |-> "db.update_no_row", status |-> 500]

\* ssoConnectors.insertIdpInitiatedAuthConfig under the unique key on connectorId.
insertIdpInitiatedAuthConfig(table, data) ==
    IF HasRow(table, data.connectorId)
    THEN [table |-> table, result |-> UniqueViolation]
    ELSE [table |-> Append(table, data), result |-> Ok(data)]

\* Merge of two key/value lists (a jsonb merge, an object spread): a key both have
\* keeps its place and takes the new value, the keys only the new one has follow.
MergeParams(old, new) ==
    LET newKeys == {new[j].k : j \in DOMAIN new}
        valueOf(key) == (CHOOSE j \in DOMAIN new : new[j].k = key)
        kept == [i \in DOMAIN old |->
                    IF old[i].k \in newKeys THEN new[valueOf(old[i].k)] ELSE old[i]]
        oldKeys == {old[i].k : i \in DOMAIN old}
    IN  kept \o SelectSeq(new, LAMBDA e : e.k \notin oldKeys)

ApplySet(row, set, jsonbMode) ==
    [f \in DOMAIN row |->
        IF f \notin DOMAIN set THEN row[f]
        ELSE IF f = "authParameters" /\ jsonbMode = "merge"
             THEN MergeParams(row[f], set[f])
        ELSE set[f]]

\* ssoConnectors.updateIdpInitiatedAuthConfig({set, where: {connectorId}, jsonbMode}).
updateWhere(table, set, connectorId, jsonbMode) ==
    IF ~HasRow(table, connectorId)
    THEN [table |-> table, result |-> UpdateError]
    ELSE LET i == CHOOSE k \in DOMAIN table : table[k].connectorId = connectorId
             updated == ApplySet(table[i], set, jsonbMode)
         IN  [table |-> [table EXCEPT ![i] = updated], result |-> Ok(updated)]

updateWrite_Merge(table, connectorId, set) ==
    updateWhere(table, set, connectorId, "merge")

\* The write of the update: jsonbMode 'replace'.
updateWrite(table, connectorId, set) ==
    updateWhere(table, set, connectorId, "replace")

createSsoConnectorIdpInitiatedAuthConfig(table, data) ==
    LET checked == assertApplicationType(data.defaultApplicationId)
    IN  IF checked.kind = "error" THEN [table |-> table, result |-> checked]
        ELSE insertIdpInitiatedAuthConfig(table, data)

updateSsoConnectorIdpInitiatedAuthConfig(table, connectorId, set) ==
    LET checked == updateValidation(set)
    IN  IF checked.kind = "error" THEN [table |-> table, result |-> checked]
        ELSE updateWrite(table, connectorId, set)

CreateSsoConnectorIdpInitiatedAuthConfig(data) ==
    LET out == createSsoConnectorIdpInitiatedAuthConfig(configs, data)
    IN  /\ configs' = out.table
        /\ last' = [op |-> "createConfig", data |-> data, result |-> out.result]
        /\ UNCHANGED <<connectors, sessions, now, pending>>

UpdateSsoConnectorIdpInitiatedAuthConfig(connectorId, set) ==
    LET out == updateSsoConnectorIdpInitiatedAuthConfig(configs, connectorId, set)
    IN  /\ configs' = out.table
        /\ last' = [op |-> "updateConfig", connectorId |-> connectorId, set |-> set,
                    result |-> out.result]
        /\ UNCHANGED <<connectors, sessions, now, pending>>

\* Inputs of the lifecycle calls.
AppIdInputs == {"", "a1", "a2", "a3", "a4", "a9"}
RedirectUriInputs == {Null, "https://cb"}
AuthParameterInputs ==
    { <<[k |-> "scope", v |-> <<"custom">>]>>,
      <<[k |-> "resource", v |-> <<"r1">>]>> }

CreateInputs ==
    [connectorId : ConnectorIdSet, defaultApplicationId : AppIdInputs,
     redirectUri : RedirectUriInputs, authParameters : AuthParameterInputs]

\* A partial update: any non-empty choice of the three fields.
Opt(S) == {<<>>} \cup {<<x>> : x \in S}
Field(name, opt) == IF opt = <<>> THEN <<>> ELSE name :> opt[1]
UpdateSetsOver(appIds, uris, params) ==
    { Field("defaultApplicationId", d) @@ Field("redirectUri", r) @@ Field("authParameters", a) :
        d \in Opt(appIds), r \in Opt(uris), a \in Opt(params) } \ {<<>>}
UpdateSets == UpdateSetsOver(AppIdInputs, RedirectUriInputs, AuthParameterInputs)

\* One supported connector and one of an unregistered provider.
FixedConnectors ==
    [i \in ConnectorIdSet |->
        [id |-> i, providerName |-> IF i = "c1" THEN "okta" ELSE "legacy",
         config |-> {"clientId", "issuer"}, domains |-> {"example.com"}]]

InitStores ==
    /\ connectors = FixedConnectors
    /\ configs = <<>>
    /\ sessions = {}
    /\ now = 0
    /\ pending = <<>>
    /\ last = NoCall

NextConfig ==
    \/ \E data \in CreateInputs : CreateSsoConnectorIdpInitiatedAuthConfig(data)
    \/ \E connectorId \in ConnectorIdSet, set \in UpdateSets :
          UpdateSsoConnectorIdpInitiatedAuthConfig(connectorId, set)

SpecConfig == InitStores /\ [][NextConfig]_vars

FirstPartyTraditional(appId) == appId \in {"a1", "a4"}

RowOf(table, connectorId) ==
    table[CHOOSE i \in DOMAIN table : table[i].connectorId = connectorId]

\* What a completed create or update call did to the table, by its application.
C3_Step ==
    /\ last'.op = "createConfig" =>
          LET data == last'.data
              app  == data.defaultApplicationId
          IN  /\ app \notin {"a1", "a2", "a3", "a4"} =>
                    /\ last'.result = RequestError("entity.not_exists_with_id", 404)
                    /\ configs' = configs
              /\ app \in {"a2", "a3"} =>
                    /\ last'.result = RequestError(
                          "connector.saml_idp_initiated_auth_invalid_application_type", 400)
                    /\ configs' = configs
              /\ FirstPartyTraditional(app) /\ HasRow(configs, data.connectorId) =>
                    /\ last'.result = UniqueViolation
                    /\ configs' = configs
              /\ FirstPartyTraditional(app) /\ ~HasRow(configs, data.connectorId) =>
                    /\ last'.result = Ok(data)
                    /\ configs' = Append(configs, data)
    /\ /\ last'.op = "updateConfig"
       /\ "defaultApplicationId" \in DOMAIN last'.set
       /\ last'.set.defaultApplicationId # ""
       => LET app == last'.set.defaultApplicationId
              cid == last'.connectorId
          IN  /\ app \notin {"a1", "a2", "a3", "a4"} =>
                    /\ last'.result = RequestError("entity.not_exists_with_id", 404)
                    /\ configs' = configs
              /\ app \in {"a2", "a3"} =>
                    /\ last'.result = RequestError(
                          "connector.saml_idp_initiated_auth_invalid_application_type", 400)
                    /\ configs' = configs
              /\ FirstPartyTraditional(app) /\ ~HasRow(configs, cid) =>
                    /\ last'.result = UpdateError
                    /\ configs' = configs
              /\ FirstPartyTraditional(app) /\ HasRow(configs, cid) =>
                    /\ last'.result.kind = "ok"
                    /\ RowOf(configs', cid).defaultApplicationId = app
                    /\ last'.result.value = RowOf(configs', cid)
                    /\ Len(configs') = Len(configs)
                    /\ \A i \in DOMAIN configs :
                          configs[i].connectorId # cid => configs'[i] = configs[i]

C4_ConfigsReferToValidApplication ==
    \A i \in DOMAIN configs :
        /\ configs[i].defaultApplicationId \in DOMAIN Applications
        /\ Applications[configs[i].defaultApplicationId].type = "Traditional"
        /\ ~Applications[configs[i].defaultApplicationId].isThirdParty

----------------------------------------------------------------------------
(* Concurrent lifecycle calls: a call that awaits its application lookup is  *)
(* suspended there, and other calls run before its write is issued.          *)

MaxInFlight == 2

RemoveAt(seq, i) == SubSeq(seq, 1, i - 1) \o SubSeq(seq, i + 1, Len(seq))

Await == [op |-> "await"]

\* create up to the end of its lookup: the assertion fails the call, or the call
\* is suspended before its insert.
CreateLookup(data) ==
    LET checked == assertApplicationType(data.defaultApplicationId)
    IN  /\ Len(pending) < MaxInFlight
        /\ IF checked.kind = "error"
           THEN /\ last' = [op |-> "createConfig", data |-> data, result |-> checked]
                /\ pending' = pending
           ELSE /\ last' = Await
                /\ pending' = Append(pending, [op |-> "createConfig", data |-> data])
        /\ UNCHANGED <<connectors, configs, sessions, now>>

\* The insert of a suspended create.
CreateInsert(i) ==
    /\ pending[i].op = "createConfig"
    /\ LET out == insertIdpInitiatedAuthConfig(configs, pending[i].data)
       IN  /\ configs' = out.table
           /\ last' = [op |-> "createConfig", data |-> pending[i].data,
                       result |-> out.result]
    /\ pending' = RemoveAt(pending, i)
    /\ UNCHANGED <<connectors, sessions, now>>

\* update up to its first await: without a truthy defaultApplicationId the write
\* is issued at once, otherwise the call is suspended in the lookup.
UpdateLookup(connectorId, set) ==
    LET checked == updateValidation(set)
        awaits  == "defaultApplicationId" \in DOMAIN set /\ Truthy(set.defaultApplicationId)
    IN  /\ Len(pending) < MaxInFlight
        /\ IF checked.kind = "error"
           THEN /\ last' = [op |-> "updateConfig", connectorId |-> connectorId,
                            set |-> set, result |-> checked]
                /\ UNCHANGED <<configs, pending>>
           ELSE IF awaits
           THEN /\ last' = Await
                /\ pending' = Append(pending, [op |-> "updateConfig",
                                               connectorId |-> connectorId, set |-> set])
                /\ UNCHANGED configs
           ELSE LET out == updateWrite(configs, connectorId, set)
                IN  /\ configs' = out.table
                    /\ last' = [op |-> "updateConfig", connectorId |-> connectorId,
                                set |-> set, result |-> out.result]
                    /\ UNCHANGED pending
        /\ UNCHANGED <<connectors, sessions, now>>

\* The write of a suspended update.
UpdateWrite(i) ==
    /\ pending[i].op = "updateConfig"
    /\ LET out == updateWrite(configs, pending[i].connectorId, pending[i].set)
       IN  /\ configs' = out.table
           /\ last' = [op |-> "updateConfig", connectorId |-> pending[i].connectorId,
                       set |-> pending[i].set, result |-> out.result]
    /\ pending' = RemoveAt(pending, i)
    /\ UNCHANGED <<connectors, sessions, now>>

ConcCreateInputs ==
    [connectorId : ConnectorIdSet, defaultApplicationId : {"a1", "a2", "a4"},
     redirectUri : {"https://cb"},
     authParameters : {<<[k |-> "scope", v |-> <<"custom">>]>>}]

ConcUpdateSets ==
    UpdateSetsOver({"a4", "a3"}, {Null}, {<<[k |-> "resource", v |-> <<"r1">>]>>})

NextConcurrent ==
    \/ \E data \in ConcCreateInputs : CreateLookup(data)
    \/ \E i \in DOMAIN pending : CreateInsert(i)
    \/ \E connectorId \in ConnectorIdSet, set \in ConcUpdateSets :
          UpdateLookup(connectorId, set)
    \/ \E i \in DOMAIN pending : UpdateWrite(i)

SpecConcurrent == InitStores /\ [][NextConcurrent]_vars

\* What a step of a lifecycle call may do to the table.
C9_Step ==
    /\ \A i, j \in DOMAIN configs' :
          configs'[i].connectorId = configs'[j].connectorId => i = j
    /\ last'.op = "createConfig" /\ HasRow(configs, last'.data.connectorId) =>
          /\ last'.result.kind = "error"
          /\ FirstPartyTraditional(last'.data.defaultApplicationId) =>
                last'.result = UniqueViolation
          /\ configs' = configs
    /\ last'.op = "updateConfig" /\ last'.result.kind = "ok" =>
          LET cid    == last'.connectorId
              before == RowOf(configs, cid)
              after  == RowOf(configs', cid)
          IN  /\ HasRow(configs, cid)
              /\ \A f \in {"defaultApplicationId", "redirectUri", "authParameters"} :
                    after[f] = IF f \in DOMAIN last'.set THEN last'.set[f] ELSE before[f]
              /\ after.connectorId = cid

\* C9: under every interleaving of create and update calls a connector has at
\* most one config; a create completing for a connector that has a config fails
\* and leaves the table unchanged (with the uniqueness violation once its
\* application check has passed); an update that writes replaces exactly the
\* fields it supplies, authParameters as a whole, and keeps the others.
C9_OneConfigPerConnector == [][C9_Step]_vars

C9_Witness ==
    /\ last.op = "createConfig"
    /\ last.result = UniqueViolation
    /\ Len(configs) = 1
    /\ configs[1].connectorId = last.data.connectorId
    /\ configs[1].defaultApplicationId # last.data.defaultApplicationId
    /\ \E i \in DOMAIN pending : pending[i].op = "updateConfig"

----------------------------------------------------------------------------
(* SAML SSO session creation                                                *)

\* 10 minutes, in milliseconds.
defaultIdPInitiatedSamlSsoSessionTtl == 600000

\* The NotOnOrAfter values of the assertions, and new Date(value).valueOf().
IsoTimes ==
    {"1970-01-01T00:00:00.000Z", "1970-01-01T00:07:30.250Z", "1970-01-01T01:00:00.000Z"}

DateValueOf(iso) ==
    CASE iso = "1970-01-01T00:00:00.000Z" -> 0
      [] iso = "1970-01-01T00:07:30.250Z" -> 450250
      [] iso = "1970-01-01T01:00:00.000Z" -> 3600000

\* assertionContent.conditions?.notOnOrAfter
notOnOrAfterOf(assertionContent) ==
    IF assertionContent.conditions = <<>> THEN Null
    ELSE assertionContent.conditions[1].notOnOrAfter

\* generateStandardId(): an id no persisted session has.
FreshIds(ids) == ids \ {s.id : s \in sessions}

createIdpInitiatedSamlSsoSession_AlwaysTtl(id, connectorId, assertionContent) ==
    [id |-> id, connectorId |-> connectorId, assertionContent |-> assertionContent,
     expiresAt |-> now + defaultIdPInitiatedSamlSsoSessionTtl]

\* The session the call inserts.
createIdpInitiatedSamlSsoSession(id, connectorId, assertionContent) ==
    LET expiresAt ==
            IF Truthy(notOnOrAfterOf(assertionContent))
            THEN DateValueOf(notOnOrAfterOf(assertionContent))
            ELSE now + defaultIdPInitiatedSamlSsoSessionTtl
    IN  [id |-> id, connectorId |-> connectorId, assertionContent |-> assertionContent,
         expiresAt |-> expiresAt]

\* ssoConnectors.insertIdpInitiatedSamlSsoSession
insertIdpInitiatedSamlSsoSession(table, session) == table \cup {session}

CreateIdpInitiatedSamlSsoSession_PerConnector(id, connectorId, assertionContent) ==
    LET session == createIdpInitiatedSamlSsoSession(id, connectorId, assertionContent)
    IN  /\ sessions' = {s \in sessions : s.connectorId # connectorId} \cup {session}
        /\ last' = [op |-> "createSession", connectorId |-> connectorId,
                    assertionContent |-> assertionContent, result |-> Ok(session)]
        /\ UNCHANGED <<connectors, configs, now, pending>>

CreateIdpInitiatedSamlSsoSession(id, connectorId, assertionContent) ==
    LET session == createIdpInitiatedSamlSsoSession(id, connectorId, assertionContent)
    IN  /\ sessions' = insertIdpInitiatedSamlSsoSession(sessions, session)
        /\ last' = [op |-> "createSession", connectorId |-> connectorId,
                    assertionContent |-> assertionContent, result |-> Ok(session)]
        /\ UNCHANGED <<connectors, configs, now, pending>>

TickMs == 300000
MaxTicks == 2
MaxSessions == 2

\* Time passes.
Tick ==
    /\ now < MaxTicks * TickMs
    /\ now' = now + TickMs
    /\ UNCHANGED <<connectors, configs, sessions, pending, last>>

SessionIds == 1..MaxSessions

AssertionContents ==
    [nameID : {"user@example.com"},
     conditions : {<<>>} \cup
                  {<<[notOnOrAfter |-> t]>> : t \in IsoTimes \cup {Null, ""}}]

NextSession ==
    \/ \E id \in FreshIds(SessionIds), assertionContent \in AssertionContents :
          CreateIdpInitiatedSamlSsoSession(id, "c1", assertionContent)
    \/ Tick

SpecSession == InitStores /\ [][NextSession]_vars

----------------------------------------------------------------------------
(* Sign-in URL synthesis                                                    *)

\* String.prototype.split(' '): the maximal runs between the spaces, empty runs
\* included; the empty string splits into one empty token.
RECURSIVE Split(_)
Split(str) ==
    IF \A i \in DOMAIN str : str[i] # Space THEN <<str>>
    ELSE LET at == CHOOSE i \in DOMAIN str :
                      str[i] = Space /\ \A j \in 1..(i - 1) : str[j] # Space
         IN  <<SubSeq(str, 1, at - 1)>> \o Split(SubSeq(str, at + 1, Len(str)))

\* Array.prototype.join(' ')
RECURSIVE Join(_)
Join(tokens) ==
    IF tokens = <<>> THEN <<>>
    ELSE IF Len(tokens) = 1 THEN tokens[1]
    ELSE tokens[1] \o <<Space>> \o Join(Tail(tokens))

\* Array.from(new Set(list)): the first occurrence of each member, in order.
RECURSIVE Unique(_)
Unique(list) ==
    IF list = <<>> THEN <<>>
    ELSE LET front == Unique(SubSeq(list, 1, Len(list) - 1))
             x     == list[Len(list)]
         IN  IF \E i \in DOMAIN front : front[i] = x THEN front ELSE Append(front, x)

\* The scopes every authorization request carries.
ReservedScopes == <<Str("openid"), Str("offline_access"), Str("profile")>>

\* withReservedScopes of @logto/js.
withReservedScopes(originalScopes) ==
    Join(Unique(ReservedScopes \o originalScopes))

\* The value of a key of a key/value list, <<>> when the list lacks the key.
Lookup(params, key) ==
    LET hits == SelectSeq(params, LAMBDA e : e.k = key)
    IN  IF hits = <<>> THEN <<>> ELSE <<hits[1].v>>

scopeTokens_Unsplit(authParameters) ==
    LET scope == Lookup(authParameters, "scope")
    IN  IF scope = <<>> THEN <<>> ELSE <<scope[1]>>

\* scope?.split(' ') ?? []
scopeTokens(authParameters) ==
    LET scope == Lookup(authParameters, "scope")
    IN  IF scope = <<>> THEN <<>> ELSE Split(scope[1])

\* A storage failure of the application lookup.
StorageError == [kind |-> "error", code |-> "db.connection_lost", status |-> 500]

NoThrow == [kind |-> "none"]

resolveRedirectUri_NoTrySafe(authConfig, lookupFails) ==
    IF authConfig.redirectUri # Null
    THEN [value |-> authConfig.redirectUri, lookups |-> 0, thrown |-> NoThrow]
    ELSE LET found == IF lookupFails THEN StorageError
                      ELSE findApplicationById(authConfig.defaultApplicationId)
         IN  IF found.kind = "error"
             THEN [value |-> Null, lookups |-> 1, thrown |-> found]
             ELSE [value |-> IF found.value.redirectUris = <<>> THEN Null
                             ELSE found.value.redirectUris[1],
                   lookups |-> 1, thrown |-> NoThrow]

\* authConfig.redirectUri ?? (await trySafe(first redirect URI of the application)):
\* the value, the number of application lookups made, and what was thrown.
resolveRedirectUri(authConfig, lookupFails) ==
    IF authConfig.redirectUri # Null
    THEN [value |-> authConfig.redirectUri, lookups |-> 0, thrown |-> NoThrow]
    ELSE LET found == IF lookupFails THEN StorageError
                      ELSE findApplicationById(authConfig.defaultApplicationId)
         IN  [value |-> IF found.kind = "error" THEN Null
                        ELSE IF found.value.redirectUris = <<>> THEN Null
                        ELSE found.value.redirectUris[1],
              lookups |-> 1, thrown |-> NoThrow]

\* new URLSearchParams({client_id, redirect_uri, response_type, prompt,
\* direct_sign_in, ...extraParams}): a spread key the literal already has replaces
\* that key's value in place, the other spread keys follow in their order.
queryParameters(authConfig, redirectUri) ==
    LET extraParams == SelectSeq(authConfig.authParameters, LAMBDA e : e.k # "scope")
        fixed == << [k |-> "client_id",      v |-> Str(authConfig.defaultApplicationId)],
                    [k |-> "redirect_uri",   v |-> Str(redirectUri)],
                    [k |-> "response_type",  v |-> Str("code")],
                    [k |-> "prompt",         v |-> Str("login")],
                    [k |-> "direct_sign_in", v |-> <<"sso", ":">> \o Str(authConfig.connectorId)] >>
    IN  Append(MergeParams(fixed, extraParams),
               [k |-> "scope", v |-> withReservedScopes(scopeTokens(authConfig.authParameters))])

getIdpInitiatedSamlSsoSignInUrl(issuer, authConfig, lookupFails) ==
    LET resolved == resolveRedirectUri(authConfig, lookupFails)
    IN  IF resolved.thrown # NoThrow
        THEN [result |-> resolved.thrown, lookups |-> resolved.lookups, redirectUri |-> Null]
        ELSE IF ~Truthy(resolved.value)
        THEN [result |-> RequestError("oidc.invalid_redirect_uri", 400),
              lookups |-> resolved.lookups, redirectUri |-> resolved.value]
        ELSE [result |-> Ok([endpoint |-> issuer \o "/auth",
                             searchParams |-> queryParameters(authConfig, resolved.value)]),
              lookups |-> resolved.lookups, redirectUri |-> resolved.value]

GetIdpInitiatedSamlSsoSignInUrl(issuer, authConfig, lookupFails) ==
    LET out == getIdpInitiatedSamlSsoSignInUrl(issuer, authConfig, lookupFails)
    IN  /\ last' = [op |-> "signInUrl", issuer |-> issuer, authConfig |-> authConfig,
                    lookupFails |-> lookupFails, result |-> out.result,
                    lookups |-> out.lookups, redirectUri |-> out.redirectUri]
        /\ UNCHANGED <<connectors, configs, sessions, now, pending>>

Issuers == {"https://issuer.example"}

ScopeSymbols == {Space, "openid", "custom"}
MaxScopeLen == 3
ScopeStrings == UNION {[1..n -> ScopeSymbols] : n \in 0..MaxScopeLen}

\* The extra auth parameters, in each insertion order.
ExtraParamLists ==
    LET resource == [k |-> "resource", v |-> Str("r1")]
        clientId == [k |-> "client_id", v |-> Str("other-app")]
    IN  {<<>>, <<resource>>, <<clientId>>, <<resource, clientId>>, <<clientId, resource>>}

UrlAuthParameters ==
    ExtraParamLists
    \cup {<<[k |-> "scope", v |-> sc]>> \o e : sc \in ScopeStrings, e \in ExtraParamLists}
    \cup {e \o <<[k |-> "scope", v |-> sc]>> : sc \in ScopeStrings, e \in ExtraParamLists}

UrlAuthConfigs ==
    [connectorId : {"c1"}, defaultApplicationId : {"a1", "a4", "a9"},
     redirectUri : {Null, "", "https://cb"}, authParameters : UrlAuthParameters]

\* One call per behaviour: the URL is a function of the call's arguments.
NextUrl ==
    /\ last = NoCall
    /\ \E issuer \in Issuers, authConfig \in UrlAuthConfigs, lookupFails \in BOOLEAN :
          GetIdpInitiatedSamlSsoSignInUrl(issuer, authConfig, lookupFails)

SpecUrl == InitStores /\ [][NextUrl]_vars

----------------------------------------------------------------------------
(* All operations of the library over one store                             *)

CoreCreateInputs ==
    [connectorId : {"c1"}, defaultApplicationId : {"a2", "a4"},
     redirectUri : {Null}, authParameters : {<<[k |-> "scope", v |-> Str("custom")]>>}]

CoreUpdateSets == UpdateSetsOver({"a1"}, {"https://cb"}, {})

CoreAssertionContents ==
    {a \in AssertionContents :
        notOnOrAfterOf(a) \in {Null, "1970-01-01T00:07:30.250Z"} /\ a.conditions # <<>>}

Next ==
    \/ GetSsoConnectors(0, 0)
    \/ GetAvailableSsoConnectors
    \/ \E id \in ConnectorIdSet : GetSsoConnectorById(id)
    \/ \E data \in CoreCreateInputs : CreateSsoConnectorIdpInitiatedAuthConfig(data)
    \/ \E set \in CoreUpdateSets : UpdateSsoConnectorIdpInitiatedAuthConfig("c1", set)
    \/ \E id \in FreshIds(SessionIds), connectorId \in {"c1", "c9"},
          assertionContent \in CoreAssertionContents :
          CreateIdpInitiatedSamlSsoSession(id, connectorId, assertionContent)
    \/ \E issuer \in Issuers, i \in DOMAIN configs, lookupFails \in BOOLEAN :
          GetIdpInitiatedSamlSsoSignInUrl(issuer, configs[i], lookupFails)
    \/ Tick

Spec == InitStores /\ [][Next]_vars

----------------------------------------------------------------------------
(* Properties                                                               *)

\* The expiry of the sessions a step creates.
C5_Step ==
    \A s \in sessions' \ sessions :
        LET T == notOnOrAfterOf(s.assertionContent)
        IN  /\ T \in IsoTimes => s.expiresAt = DateValueOf(T)
            /\ T \in {Null, ""} => s.expiresAt = now + 600000

\* C5: a session created from an assertion whose conditions.notOnOrAfter is T
\* expires at T's epoch milliseconds, wherever T lies relative to Date.now(); one
\* created from an assertion without that condition (or with an empty one) expires
\* at the creation time plus the default TTL.
C5_ExpiresAtNotOnOrAfter == [][C5_Step]_vars

C5_Witness ==
    /\ last.op = "createSession"
    /\ notOnOrAfterOf(last.assertionContent) = "1970-01-01T00:07:30.250Z"
    /\ last.result.value \in sessions
    /\ last.result.value.expiresAt = 450250
    \* an earlier session, created at 600000: the last one was created after T
    /\ \E s \in sessions :
          /\ s # last.result.value
          /\ notOnOrAfterOf(s.assertionContent) = Null
          /\ s.expiresAt = 1200000

\* What a step may do to the persisted sessions.
C10_Step ==
    /\ sessions \subseteq sessions'
    /\ last'.op = "createSession" /\ last' # last =>
          /\ last'.result.kind = "ok"
          /\ sessions' = sessions \cup {last'.result.value}
          /\ last'.result.value.id \notin {s.id : s \in sessions}
          /\ last'.result.value.connectorId = last'.connectorId
          /\ last'.result.value.assertionContent = last'.assertionContent
          /\ configs' = configs
          /\ connectors' = connectors
    /\ \A s, t \in sessions' : s.id = t.id => s = t

\* C10: creating a session adds exactly one session under an id no session had,
\* for any connectorId, and changes no other session, config or connector; no step
\* of any operation changes or removes a persisted session.
C10_SessionsAppendOnly == [][C10_Step]_vars

C10_Witness ==
    /\ last.op = "createSession"
    /\ last.connectorId = "c9"
    /\ "c9" \notin DOMAIN connectors
    /\ Cardinality(sessions) = 2
    /\ \A s \in sessions : s.connectorId = "c9"
    /\ configs # <<>>

\* The value the call resolved for redirect_uri, as C6 states it.
C6_Resolved(call) ==
    IF call.authConfig.redirectUri # Null THEN call.authConfig.redirectUri
    ELSE IF call.lookupFails THEN Null
    ELSE IF call.authConfig.defaultApplicationId \notin {"a1", "a2", "a3", "a4"} THEN Null
    ELSE IF call.authConfig.defaultApplicationId = "a1" THEN "https://app.example/cb"
    ELSE IF call.authConfig.defaultApplicationId = "a2" THEN "https://third.example/cb"
    ELSE Null

\* C6: redirect_uri is authConfig.redirectUri when that is set (not null), otherwise
\* the first registered redirect URI of the default application; a missing
\* application or a failing lookup counts as no URI; the call fails only with
\* invalid-redirect-URI, exactly when the resolved value is absent or empty; the
\* application is looked up only when authConfig.redirectUri is not set.
C6_RedirectUriResolution ==
    last.op = "signInUrl" =>
        /\ last.result.kind = "error" =>
              last.result = RequestError("oidc.invalid_redirect_uri", 400)
        /\ last.result.kind = "error" <=> C6_Resolved(last) \in {Null, ""}
        /\ last.result.kind = "ok" => last.redirectUri = C6_Resolved(last)
        /\ last.lookups = IF last.authConfig.redirectUri # Null THEN 0 ELSE 1

C6_Witness ==
    /\ last.op = "signInUrl"
    /\ last.authConfig.redirectUri = Null
    /\ last.authConfig.defaultApplicationId = "a1"
    /\ last.lookupFails
    /\ last.result = RequestError("oidc.invalid_redirect_uri", 400)

\* C7: the URL is <issuer>/auth?<query>; the query has client_id =
\* defaultApplicationId, redirect_uri = the resolved URI, response_type = code,
\* prompt = login, direct_sign_in = sso:<connectorId>, every authParameters entry
\* other than scope verbatim, and exactly one scope parameter, the last one.
C7_QueryContract ==
    last.op = "signInUrl" /\ last.result.kind = "ok" =>
        LET url   == last.result.value
            query == url.searchParams
            cfg   == last.authConfig
        IN  /\ url.endpoint = last.issuer \o "/auth"
            /\ Lookup(query, "client_id") = <<Str(cfg.defaultApplicationId)>>
            /\ Lookup(query, "redirect_uri") = <<Str(last.redirectUri)>>
            /\ Lookup(query, "response_type") = <<Str("code")>>
            /\ Lookup(query, "prompt") = <<Str("login")>>
            /\ Lookup(query, "direct_sign_in") = <<<<"sso", ":", cfg.connectorId>>>>
            /\ \A i \in DOMAIN cfg.authParameters :
                  cfg.authParameters[i].k # "scope" =>
                      \E j \in DOMAIN query : query[j] = cfg.authParameters[i]
            /\ Len(SelectSeq(query, LAMBDA e : e.k = "scope")) = 1
            /\ query[Len(query)].k = "scope"

\* C8: the query always has a scope parameter; split on single spaces, its tokens
\* are the reserved scopes together with the tokens of the configured scope (none
\* when scope is unset), and no token occurs twice.
C8_ScopeNormalised ==
    last.op = "signInUrl" /\ last.result.kind = "ok" =>
        LET value      == Lookup(last.result.value.searchParams, "scope")
            configured == Lookup(last.authConfig.authParameters, "scope")
            requested  == IF configured = <<>> THEN {}
                          ELSE Range(Split(configured[1]))
        IN  /\ value # <<>>
            /\ LET tokens == Split(value[1])
               IN  /\ Range(tokens) =
                         {<<"openid">>, <<"offline_access">>, <<"profile">>} \cup requested
                   /\ \A i, j \in DOMAIN tokens : tokens[i] = tokens[j] => i = j

C8_Witness ==
    /\ last.op = "signInUrl" /\ last.result.kind = "ok"
    /\ Lookup(last.authConfig.authParameters, "scope") = << <<"openid", Space, "custom">> >>
    /\ Lookup(last.result.value.searchParams, "scope") =
          << <<"openid", Space, "offline_access", Space, "profile", Space, "custom">> >>

====
